---- MODULE Spec2Model ----
(***************************************************************************)
(* Model of the predeploy gate of omnia-prevent-ci                         *)
(* (src/scripts/predeploy.py, src/scripts/common.py).                      *)
(*                                                                         *)
(* A text (title, commit message, tag, link, note) is a sequence of        *)
(* one-character strings.  An optional value is a sequence of length 0     *)
(* (absent) or 1.  A function result is a record [raised, value]: raised   *)
(* is "none" when the function returned, else the name of the exception.   *)
(***************************************************************************)
EXTENDS Integers, Sequences, FiniteSets, TLC

\* ------------------------------------------------------------------ bounds
MaxTextLen == 3
MaxTagLen == 4

\* -------------------------------------------------------------- characters
NL == "\n"
CR == "\r"
FF == "\f"
BS == "\\"
SQ == "'"
DQ == "\""

Lower == {"a", "b", "c", "d", "e", "f", "g", "h", "i", "j", "k", "l", "m",
          "n", "o", "p", "q", "r", "s", "t", "u", "v", "w", "x", "y", "z"}
Upper == {"A", "B", "C", "D", "E", "F", "G", "H", "I", "J", "K", "L", "M",
          "N", "O", "P", "Q", "R", "S", "T", "U", "V", "W", "X", "Y", "Z"}
Digits == {"0", "1", "2", "3", "4", "5", "6", "7", "8", "9"}
\* the characters of the model's alphabet at which str.splitlines breaks a line
LineBoundaries == {NL, CR, FF}
\* the characters of the model's alphabet matched by the regex class \s
Whitespace == {" ", "\t", NL, CR, FF}

LowerOf(c) ==
    CASE c = "A" -> "a" [] c = "U" -> "u" [] c = "X" -> "x" [] OTHER -> c

\* ------------------------------------------------------------ str helpers
\* lit occurs in s starting at index i
OccursAt(lit, s, i) ==
    /\ i >= 1
    /\ i + Len(lit) - 1 <= Len(s)
    /\ \A k \in 1..Len(lit) : s[i + k - 1] = lit[k]

\* str.endswith
EndsWith(s, suffix) ==
    /\ Len(suffix) <= Len(s)
    /\ OccursAt(suffix, s, Len(s) - Len(suffix) + 1)

\* s.split(sep, 1)[0]: the part of s before the first occurrence of sep
SplitFirst(s, sep) ==
    LET hits == {i \in 1..Len(s) : OccursAt(sep, s, i)}
    IN  IF hits = {} THEN s
        ELSE LET first == CHOOSE i \in hits : \A j \in hits : i <= j
             IN  SubSeq(s, 1, first - 1)

\* s.splitlines(): only its length-0 case and its first element are used
SplitLinesIsEmpty(s) == s = <<>>

SplitLinesFirst(s) ==
    LET hits == {i \in 1..Len(s) : s[i] \in LineBoundaries}
    IN  IF hits = {} THEN s
        ELSE LET first == CHOOSE i \in hits : \A j \in hits : i <= j
             IN  SubSeq(s, 1, first - 1)

\* text.split(r"\n", 1)[0].split(r"\r", 1)[0].splitlines()[0]
_extract_title(text) ==
    LET s1 == SplitFirst(text, <<BS, "n">>)
        s2 == SplitFirst(s1, <<BS, "r">>)
    IN  IF SplitLinesIsEmpty(s2)
        THEN [raised |-> "IndexError", value |-> <<>>]
        ELSE [raised |-> "none", value |-> SplitLinesFirst(s2)]

\* ------------------------------------------------------------------ regex
\* the positions after a non-empty run of characters of class cls that
\* starts at position i of s
RunEnds(s, i, cls) ==
    {j \in (i + 1)..(Len(s) + 1) : \A k \in i..(j - 1) : s[k] \in cls}

\* one more "(\.[0-9]+)" group after each position of P
DotGroup(s, P) ==
    UNION {IF p <= Len(s) /\ s[p] = "." THEN RunEnds(s, p + 1, Digits) ELSE {}
           : p \in P}

RECURSIVE DotGroups(_, _, _)
\* "(\.[0-9]+)*": zero or more groups, at most n of them
DotGroups(s, P, n) ==
    IF n = 0 THEN P ELSE DotGroups(s, P \cup DotGroup(s, P), n - 1)

\* "([a-z]+[0-9]+)?"
OptSuffix(s, P) ==
    P \cup UNION {UNION {RunEnds(s, q, Digits) : q \in RunEnds(s, p, Lower)}
                  : p \in P}

\* the positions at which a match of RELEASE_PATTERN that starts at the
\* first character of s can end
ReleaseMatchEnds(s) ==
    IF Len(s) >= 1 /\ s[1] = "v"
    THEN OptSuffix(s, DotGroups(s, RunEnds(s, 2, Digits), Len(s)))
    ELSE {}

\* RELEASE_PATTERN.match(tag) is not None
RELEASE_PATTERN_match(tag) == ReleaseMatchEnds(tag) # {}

\* AUX_PR_PATTERN.match(title): "[0-9\s]*Aux:.*", re.IGNORECASE
AUX_PR_PATTERN_match(title) ==
    \E i \in 1..(Len(title) + 1) :
        /\ \A k \in 1..(i - 1) : title[k] \in Digits \cup Whitespace
        /\ i + 3 <= Len(title)
        /\ <<LowerOf(title[i]), LowerOf(title[i + 1]), LowerOf(title[i + 2]),
             title[i + 3]>> = <<"a", "u", "x", ":">>

LitAuto == <<"A", "u", "t", "o", "m", "a", "t", "i", "c", "a", "l", "l", "y",
             " ", "s", "e", "t", " ", "v", "e", "r", "s", "i", "o", "n", " ">>
LitOfImage == <<" ", "o", "f", " ", "i", "m", "a", "g", "e", " ">>
LitInKust == <<" ", "i", "n", " ", "k", "u", "s", "t", "o", "m", "i", "z", "a",
               "t", "i", "o", "n">>
LitYaml == <<"y", "a", "m", "l">>

\* "." matches every character but the newline
NoNewline(s, from, to) == \A k \in from..to : s[k] # NL

\* AUTO_PR_PATTERN.match(message):
\* "Automatically set version .* of image .* in kustomization.yaml.*"
AUTO_PR_PATTERN_match(message) ==
    /\ OccursAt(LitAuto, message, 1)
    /\ \E i \in (Len(LitAuto) + 1)..Len(message) :
          /\ OccursAt(LitOfImage, message, i)
          /\ NoNewline(message, Len(LitAuto) + 1, i - 1)
          /\ \E j \in (i + Len(LitOfImage))..Len(message) :
                /\ OccursAt(LitInKust, message, j)
                /\ NoNewline(message, i + Len(LitOfImage), j - 1)
                /\ j + Len(LitInKust) <= Len(message)
                /\ message[j + Len(LitInKust)] # NL
                /\ OccursAt(LitYaml, message, j + Len(LitInKust) + 1)

\* ------------------------------------------------------------ shlex.quote
SafeChars == Lower \cup Upper \cup Digits
             \cup {"_", "@", "%", "+", "=", ":", ",", ".", "/", "-"}

RECURSIVE ReplaceQuotes(_)
\* s.replace("'", "'\"'\"'")
ReplaceQuotes(s) ==
    IF s = <<>> THEN <<>>
    ELSE (IF Head(s) = SQ THEN <<SQ, DQ, SQ, DQ, SQ>> ELSE <<Head(s)>>)
         \o ReplaceQuotes(Tail(s))

shlex_quote(s) ==
    IF s = <<>> THEN <<SQ, SQ>>
    ELSE IF \A k \in 1..Len(s) : s[k] \in SafeChars THEN s
    ELSE <<SQ>> \o ReplaceQuotes(s) \o <<SQ>>

\* ------------------------------------------------------------ common.py
DEPLOY_DEV_BRANCH == "deploy/dev"
BOT_EMAILS == {"github-actions[bot]@users.noreply.github.com",
               "noreply@github.com"}
\* MAIN_BRANCH_NAME = context_github.event.repository.default_branch
MAIN_BRANCH_NAME(ev) == ev.default_branch

HumanEmail == "dev@example.com"

\* a function call returned v / raised exception e
Return(v) == [raised |-> "none", value |-> v]
Raise(e, v) == [raised |-> e, value |-> v]

\* get_current_commit(): the push event carries its commit, every other
\* event fetches it; fetched is the answer of api.git.get_commit(sha), <<>>
\* when the request fails.  reads lists the remote reads made, each with
\* its argument.
get_current_commit(ev, fetched) ==
    IF ev.event_name = "push"
    THEN [raised |-> "none", value |-> ev.head_commit, reads |-> <<>>]
    ELSE [raised |-> IF fetched = <<>> THEN "HTTPError" ELSE "none",
          value |-> fetched, reads |-> <<<<"get_commit", ev.sha>>>>]

\* ---------------------------------------------------------- predeploy.py
LitPR == <<"P", "R", ":", " ">>
LitCommit == <<"C", "o", "m", "m", "i", "t", ":", " ">>

\* commit.get('html_url', commit.url)
CommitLink(c) == IF c.html_url # <<>> THEN c.html_url[1] ELSE c.url

\* get_deploy_note(commit): commit is <<>> for the default None
get_deploy_note(ev, commit, fetched) ==
    IF ev.event_name = "pull_request" /\ commit = <<>>
    THEN LET t == _extract_title(ev.pr_title)
         IN  IF t.raised # "none"
             THEN [raised |-> t.raised, value |-> <<>>, reads |-> <<>>]
             ELSE [raised |-> "none",
                   value |-> LitPR \o t.value \o <<" ">> \o ev.pr_href,
                   reads |-> <<>>]
    ELSE LET cc == IF commit = <<>> THEN get_current_commit(ev, fetched)
                   ELSE [raised |-> "none", value |-> commit, reads |-> <<>>]
         IN  IF cc.raised # "none"
             THEN [raised |-> cc.raised, value |-> <<>>, reads |-> cc.reads]
             ELSE LET t == _extract_title(cc.value[1].message)
                  IN  IF t.raised # "none"
                      THEN [raised |-> t.raised, value |-> <<>>,
                            reads |-> cc.reads]
                      ELSE [raised |-> "none",
                            value |-> LitCommit \o t.value \o <<" ">>
                                      \o CommitLink(cc.value[1]),
                            reads |-> cc.reads]

\* a variant of IsAutomated that looks at the author of the commit
IsAutomatedByAuthor(commit) ==
    /\ commit.author_email \in BOT_EMAILS
    /\ AUTO_PR_PATTERN_match(commit.message)

\* the test of the loop of _is_human_commit
IsAutomated(commit) ==
    /\ commit.committer_email \in BOT_EMAILS
    /\ AUTO_PR_PATTERN_match(commit.message)

\* a variant of AllHuman that is satisfied with one human commit
AnyHuman(cs) == \E k \in 1..Len(cs) : ~IsAutomated(cs[k])

\* the loop of _is_human_commit: False at the first automated commit
AllHuman(cs) == \A k \in 1..Len(cs) : ~IsAutomated(cs[k])

\* the parents fetched before the first failing request (all, if none
\* fails); the list comprehension of line 91 binds commits only if none fails
FetchedPrefix(answers) ==
    LET bad == {k \in 1..Len(answers) : answers[k] = <<>>}
    IN  IF bad = {} THEN [k \in 1..Len(answers) |-> answers[k][1]]
        ELSE LET first == CHOOSE k \in bad : \A j \in bad : k <= j
             IN  [k \in 1..(first - 1) |-> answers[k][1]]

\* _is_human_commit(): fetched answers get_commit(context.sha), parents[k]
\* answers get_commit of the k-th parent of a merge commit
_is_human_commit(ev, fetched, parents) ==
    LET cc == get_current_commit(ev, fetched)
    IN  IF cc.raised # "none"
        THEN [raised |-> cc.raised, value |-> FALSE, reads |-> cc.reads,
              cur_commit |-> <<>>, commits |-> <<>>]
        ELSE LET cur == cc.value[1]
             IN  IF Len(cur.parents) > 1
                 THEN LET got == FetchedPrefix(parents)
                          failed == Len(got) < Len(parents)
                          n == IF failed THEN Len(got) + 1 ELSE Len(got)
                          reads == cc.reads
                                   \o [k \in 1..n |->
                                          <<"get_commit", cur.parents[k]>>]
                      IN  IF failed
                          THEN [raised |-> "HTTPError", value |-> FALSE,
                                reads |-> reads, cur_commit |-> cc.value,
                                commits |-> <<>>]
                          ELSE [raised |-> "none", value |-> AllHuman(got),
                                reads |-> reads, cur_commit |-> cc.value,
                                commits |-> got]
                 ELSE [raised |-> "none", value |-> AllHuman(<<cur>>),
                       reads |-> cc.reads, cur_commit |-> cc.value,
                       commits |-> <<cur>>]

\* a variant of check_deploy_required that classifies the commit of a pull
\* request before it looks at the draft flag and the title
check_deploy_required_eager(ev, fetched, parents) ==
    LET none == [raised |-> "none", reads |-> <<>>, cur_commit |-> <<>>,
                 commits |-> <<>>]
        human == _is_human_commit(ev, fetched, parents)
    IN  IF ev.event_name = "release" /\ ~RELEASE_PATTERN_match(ev.tag_name)
        THEN none @@ [value |-> FALSE, checks |-> <<"release_tag">>]
        ELSE IF ev.event_name # "pull_request"
        THEN none @@ [value |-> TRUE, checks |-> <<"release_tag", "not_pr">>]
        ELSE IF human.raised # "none"
        THEN human @@ [checks |-> <<"release_tag", "not_pr">>]
        ELSE IF ev.pr_draft
        THEN [human EXCEPT !.value = FALSE]
             @@ [checks |-> <<"release_tag", "not_pr", "draft">>]
        ELSE IF AUX_PR_PATTERN_match(ev.pr_title)
        THEN [human EXCEPT !.value = FALSE]
             @@ [checks |-> <<"release_tag", "not_pr", "draft", "aux">>]
        ELSE human @@ [checks |-> <<"release_tag", "not_pr", "draft", "aux",
                                    "is_human">>]

\* check_deploy_required(): checks lists the conditions evaluated, in order
check_deploy_required(ev, fetched, parents) ==
    LET none == [raised |-> "none", reads |-> <<>>, cur_commit |-> <<>>,
                 commits |-> <<>>]
    IN  IF ev.event_name = "release" /\ ~RELEASE_PATTERN_match(ev.tag_name)
        THEN none @@ [value |-> FALSE, checks |-> <<"release_tag">>]
        ELSE IF ev.event_name # "pull_request"
        THEN none @@ [value |-> TRUE, checks |-> <<"release_tag", "not_pr">>]
        ELSE IF ev.pr_draft
        THEN none @@ [value |-> FALSE,
                      checks |-> <<"release_tag", "not_pr", "draft">>]
        ELSE IF AUX_PR_PATTERN_match(ev.pr_title)
        THEN none @@ [value |-> FALSE,
                      checks |-> <<"release_tag", "not_pr", "draft", "aux">>]
        ELSE _is_human_commit(ev, fetched, parents)
             @@ [checks |-> <<"release_tag", "not_pr", "draft", "aux",
                              "is_human">>]

\* the call api.repos.compare_commits(branch, DEPLOY_DEV_BRANCH)
Compare(branch) == <<"compare_commits", <<branch, DEPLOY_DEV_BRANCH>>>>

\* a variant of _is_branch_directly_deployed that compares the main branch
\* only
_is_branch_directly_deployed_main_only(ev, cmps) ==
    LET first == Compare(MAIN_BRANCH_NAME(ev))
        second == Compare(ev.head_ref)
    IN  IF cmps[1] = <<>>
        THEN [raised |-> "HTTPError", value |-> FALSE,
              reads |-> <<first>>, compares |-> <<>>]
        ELSE IF cmps[2] = <<>>
        THEN [raised |-> "HTTPError", value |-> FALSE,
              reads |-> <<first, second>>, compares |-> <<cmps[1][1]>>]
        ELSE [raised |-> "none", value |-> cmps[1][1] = "identical",
              reads |-> <<first, second>>,
              compares |-> <<cmps[1][1], cmps[2][1]>>]

\* _is_branch_directly_deployed(): the branches compared are
\* MAIN_BRANCH_NAME, then context_github.head_ref; cmps[k] answers the k-th
\* api.repos.compare_commits, <<>> when the request fails; the value is
\* FALSE where the function falls off its end and returns None
_is_branch_directly_deployed(ev, cmps) ==
    LET first == Compare(MAIN_BRANCH_NAME(ev))
        second == Compare(ev.head_ref)
    IN  IF cmps[1] = <<>>
        THEN [raised |-> "HTTPError", value |-> FALSE,
              reads |-> <<first>>, compares |-> <<>>]
        ELSE IF cmps[1][1] = "identical"
        THEN [raised |-> "none", value |-> TRUE,
              reads |-> <<first>>, compares |-> <<cmps[1][1]>>]
        ELSE IF cmps[2] = <<>>
        THEN [raised |-> "HTTPError", value |-> FALSE,
              reads |-> <<first, second>>, compares |-> <<cmps[1][1]>>]
        ELSE [raised |-> "none", value |-> cmps[2][1] = "identical",
              reads |-> <<first, second>>,
              compares |-> <<cmps[1][1], cmps[2][1]>>]

\* get_last_commit(branch_name): api.git.get_ref(f"heads/{branch_name}"),
\* then api.git.get_commit(branch.object.sha); answer.ref is the sha the
\* ref points to, <<>> when get_ref fails, and answer.commit answers the
\* get_commit that follows
get_last_commit(branch_name, answer) ==
    IF answer.ref = <<>>
    THEN [raised |-> "HTTPError", value |-> <<>>,
          reads |-> <<<<"get_ref", <<"heads", branch_name>>>>>>]
    ELSE [raised |-> IF answer.commit = <<>> THEN "HTTPError" ELSE "none",
          value |-> answer.commit,
          reads |-> <<<<"get_ref", <<"heads", branch_name>>>>,
                      <<"get_commit", answer.ref[1]>>>>]

RECURSIVE SafeLoopAnyCommitter(_, _, _)
\* a variant of SafeLoop that accepts a note whoever committed it
SafeLoopAnyCommitter(ev, deploy, candidates) ==
    IF candidates = <<>> THEN Return(FALSE)
    ELSE LET note == get_deploy_note(ev, Head(candidates), <<>>)
         IN  IF note.raised # "none" THEN Raise(note.raised, FALSE)
             ELSE IF EndsWith(deploy.message, note.value) THEN Return(TRUE)
             ELSE SafeLoopAnyCommitter(ev, deploy, Tail(candidates))

RECURSIVE SafeLoop(_, _, _)
\* the loop of check_safe_to_deploy over its candidates (None, then the
\* last commit of the main branch); inside a pull_request event
\* get_deploy_note fetches nothing
SafeLoop(ev, deploy, candidates) ==
    IF candidates = <<>> THEN Return(FALSE)
    ELSE IF deploy.committer_email \notin BOT_EMAILS
    THEN SafeLoop(ev, deploy, Tail(candidates))
    ELSE LET note == get_deploy_note(ev, Head(candidates), <<>>)
         IN  IF note.raised # "none" THEN Raise(note.raised, FALSE)
             ELSE IF EndsWith(deploy.message, note.value) THEN Return(TRUE)
             ELSE SafeLoop(ev, deploy, Tail(candidates))

\* check_safe_to_deploy()
check_safe_to_deploy(ev, cmps, deployAnswer, mainAnswer) ==
    LET frame == [reads |-> <<>>, compares |-> <<>>,
                  last_deploy_commit |-> <<>>, last_main_commit |-> <<>>]
    IN  IF ev.event_name # "pull_request"
        THEN Return(TRUE) @@ frame
        ELSE
        LET direct == _is_branch_directly_deployed(ev, cmps)
            f1 == [frame EXCEPT !.reads = direct.reads,
                                !.compares = direct.compares]
        IN  IF direct.raised # "none" THEN Raise(direct.raised, FALSE) @@ f1
            ELSE IF direct.value THEN Return(TRUE) @@ f1
            ELSE
            LET d == get_last_commit(DEPLOY_DEV_BRANCH, deployAnswer)
                f2 == [f1 EXCEPT !.reads = @ \o d.reads,
                                 !.last_deploy_commit = d.value]
            IN  IF d.raised # "none" THEN Raise(d.raised, FALSE) @@ f2
                ELSE
                LET m == get_last_commit(MAIN_BRANCH_NAME(ev), mainAnswer)
                    f3 == [f2 EXCEPT !.reads = @ \o m.reads,
                                     !.last_main_commit = m.value]
                IN  IF m.raised # "none" THEN Raise(m.raised, FALSE) @@ f3
                    ELSE SafeLoop(ev, d.value[1], <<<<>>, m.value>>) @@ f3

\* ------------------------------------------------- events and remote data
TitleFixBug == <<"F", "i", "x", " ", "b", "u", "g", " ", "#", "4", "2">>
TitleAuxDocs == <<"1", "2", "3", " ", "A", "u", "x", ":", " ", "c", "l", "e",
                  "a", "n", "u", "p", " ", "d", "o", "c", "s">>
TitleRetry == <<"A", "d", "d", " ", "r", "e", "t", "r", "y", " ", "l", "o",
                "g", "i", "c">>
TitleLowerAux == <<"a", "u", "x", ":">>
TitleInnerAux == <<"x", " ", "A", "u", "x", ":", " ", "y">>
TitleEscaped == <<"F", "i", "x", BS, "n", "m", "o", "r", "e">>
TitleEmpty == <<>>
Titles == {TitleFixBug, TitleAuxDocs, TitleRetry, TitleLowerAux,
           TitleInnerAux, TitleEscaped, TitleEmpty}

HrefPR == <<"h", "t", "t", "p", "s", ":", "/", "/", "h", "o", "s", "t", "/",
            "p", "r", "/", "4", "2">>
UrlHtml == <<"h", "t", "t", "p", "s", ":", "/", "/", "h", "o", "s", "t", "/",
             "c", "/", "1">>
UrlApi == <<"h", "t", "t", "p", "s", ":", "/", "/", "a", "p", "i", "/", "c",
            "/", "1">>

MsgFix == <<"F", "i", "x">>
MsgTwoLines == <<"F", "i", "x", NL, "m", "o", "r", "e">>
MsgEmpty == <<>>
MsgBump == LitAuto \o <<"1">> \o LitOfImage \o <<"a">> \o LitInKust
           \o <<".">> \o LitYaml
\* a version bump broken over two lines: the pattern does not match it
MsgBumpBroken == LitAuto \o <<"1", NL>> \o LitOfImage \o <<"a">> \o LitInKust
                 \o <<".">> \o LitYaml

TagNightly == <<"n", "i", "g", "h", "t", "l", "y", "-", "b", "u", "i", "l",
                "d">>
TagV123 == <<"v", "1", ".", "2", ".", "3">>
TagAlphabet == {"v", "1", ".", "a", "-"}
TextAlphabet == {"a", "n", "r", BS, NL, CR}

BoundedSeqs(S, n) == UNION {[1..k -> S] : k \in 0..n}

Tags == BoundedSeqs(TagAlphabet, MaxTagLen) \cup {TagNightly, TagV123}

Emails == BOT_EMAILS \cup {HumanEmail}

\* the commits the remote may return for the sha of the event
CurCommits ==
    [message : {MsgFix, MsgEmpty, MsgBump, MsgBumpBroken},
     committer_email : Emails,
     author_email : {HumanEmail, "noreply@github.com"},
     parents : {<<>>, <<"p1">>, <<"p1", "p2">>},
     html_url : {<<UrlHtml>>}, url : {UrlApi}]

\* the commits the remote may return for a parent of a merge commit
ParentCommits ==
    [message : {MsgFix, MsgBump}, committer_email : Emails,
     author_email : {HumanEmail}, parents : {<<"g">>},
     html_url : {<<UrlHtml>>}, url : {UrlApi}]

\* context_github.event.head_commit of a push event (it has no html_url)
PushCommits ==
    [message : {MsgFix, MsgTwoLines, MsgEmpty}, committer_email : {HumanEmail},
     author_email : {HumanEmail}, parents : {<<>>},
     html_url : {<<>>}, url : {UrlHtml}]

\* the last commits the remote may return for the main branch
MainCommits ==
    [message : {MsgFix, MsgTwoLines, MsgEmpty}, committer_email : {HumanEmail},
     author_email : {HumanEmail}, parents : {<<"g">>},
     html_url : {<<UrlHtml>>}, url : {UrlApi}]

\* the names the default branch of the repository may have
DefaultBranches == {"main", "master"}

Events ==
    [event_name : {"pull_request"}, pr_title : Titles, pr_draft : BOOLEAN,
     pr_href : {HrefPR}, tag_name : {<<>>}, head_commit : {<<>>},
     sha : {"merge"}, head_ref : {"feature"}, default_branch : DefaultBranches]
    \cup
    [event_name : {"push"}, pr_title : {<<>>}, pr_draft : {FALSE},
     pr_href : {<<>>}, tag_name : {<<>>},
     head_commit : {<<c>> : c \in PushCommits},
     sha : {"head"}, head_ref : {""}, default_branch : DefaultBranches]
    \cup
    [event_name : {"release"}, pr_title : {<<>>}, pr_draft : {FALSE},
     pr_href : {<<>>}, tag_name : Tags, head_commit : {<<>>},
     sha : {"head"}, head_ref : {""}, default_branch : DefaultBranches]
    \cup
    [event_name : {"workflow_dispatch"}, pr_title : {<<>>}, pr_draft : {FALSE},
     pr_href : {<<>>}, tag_name : {<<>>}, head_commit : {<<>>},
     sha : {"head"}, head_ref : {""}, default_branch : DefaultBranches]

\* the value of a call, if it returned
ValueOf(r) == IF r.raised = "none" THEN {r.value} ELSE {}

PullRequest(title, draft) ==
    [event_name |-> "pull_request", pr_title |-> title, pr_draft |-> draft,
     pr_href |-> HrefPR, tag_name |-> <<>>, head_commit |-> <<>>,
     sha |-> "merge", head_ref |-> "feature", default_branch |-> "main"]

\* the deploy notes a deploy commit may carry: those of two pull requests
\* and those of the last commits of the main branch
KnownNotes ==
    UNION {ValueOf(get_deploy_note(PullRequest(t, FALSE), <<>>, <<>>))
           : t \in {TitleFixBug, TitleRetry}}
    \cup UNION {ValueOf(get_deploy_note(PullRequest(TitleFixBug, FALSE),
                                        <<c>>, <<>>)) : c \in MainCommits}

DeployPrefix == <<"D", "e", "p", "l", "o", "y", NL, NL>>

\* s with its last character replaced
Garbled(s) == SubSeq(s, 1, Len(s) - 1) \o <<"?">>

DeployMessages ==
    {MsgFix}
    \cup {DeployPrefix \o n : n \in KnownNotes}
    \cup {Garbled(DeployPrefix \o n) : n \in KnownNotes}
    \cup {n \o <<NL>> : n \in KnownNotes}

\* the last commits the remote may return for the deploy branch
DeployCommits ==
    [message : DeployMessages, committer_email : Emails,
     author_email : {HumanEmail}, parents : {<<"g">>},
     html_url : {<<UrlHtml>>}, url : {UrlApi}]

\* the answers of the remote to one request
Answers(S) == {<<>>} \cup {<<x>> : x \in S}
CompareStatuses == {"identical", "ahead", "diverged"}
\* the answers to get_last_commit of a branch that points to sha
LastCommitAnswers(sha, S) ==
    {[ref |-> <<>>, commit |-> <<>>]}
    \cup {[ref |-> <<sha>>, commit |-> a] : a \in Answers(S)}

\* ------------------------------------------------------------------ state
VARIABLES
    event,                \* context_github: the triggering event
    pc,                   \* the statement of __main__ to run next
    outputs,              \* the output channel: actions_output calls, in order
    errors,               \* the error channel: actions_error calls
    exit_status,          \* the exit status of the process, NotExited before
    raised,               \* the exception that ended the run, "none" if none
    _deploy_note,         \* __main__: _deploy_note, once assigned
    _is_deploy_required,  \* __main__: _is_deploy_required, once assigned
    safe,                 \* the value check_safe_to_deploy returned, if called
    checks,               \* the conditions check_deploy_required evaluated
    calls,                \* the remote reads made: caller, request, argument
    cur_commit,           \* _is_human_commit: cur_commit
    commits,              \* _is_human_commit: commits
    compares,             \* _is_branch_directly_deployed: statuses seen
    last_deploy_commit,   \* check_safe_to_deploy: last_deploy_commit
    last_main_commit,     \* check_safe_to_deploy: last_main_commit
    text,                 \* the argument of a lone _extract_title call
    title                 \* the result of a lone _extract_title call

vars == <<event, pc, outputs, errors, exit_status, raised, _deploy_note,
          _is_deploy_required, safe, checks, calls, cur_commit, commits,
          compares, last_deploy_commit, last_main_commit, text, title>>

NotExited == -1

NoEvent == [event_name |-> "none", pr_title |-> <<>>, pr_draft |-> FALSE,
            pr_href |-> <<>>, tag_name |-> <<>>, head_commit |-> <<>>,
            sha |-> "", head_ref |-> "", default_branch |-> ""]

InitLocals ==
    /\ outputs = <<>>
    /\ errors = <<>>
    /\ exit_status = NotExited
    /\ raised = "none"
    /\ _deploy_note = <<>>
    /\ _is_deploy_required = <<>>
    /\ safe = <<>>
    /\ checks = <<>>
    /\ calls = <<>>
    /\ cur_commit = <<>>
    /\ commits = <<>>
    /\ compares = <<>>
    /\ last_deploy_commit = <<>>
    /\ last_main_commit = <<>>

Init ==
    /\ event \in Events
    /\ pc = "get_deploy_note"
    /\ InitLocals
    /\ text = <<>>
    /\ title = Return(<<>>)

\* the reads of one call, tagged with the function __main__ called
Tagged(caller, reads) ==
    [k \in 1..Len(reads) |-> <<caller, reads[k][1], reads[k][2]>>]

\* an uncaught exception ends the process with a traceback and status 1
Abort(e) ==
    /\ raised' = e
    /\ exit_status' = 1
    /\ pc' = "done"

\* line 136: _deploy_note = get_deploy_note()
GetDeployNote ==
    /\ pc = "get_deploy_note"
    /\ \E fetched \in (IF event.event_name \in {"pull_request", "push"}
                       THEN {<<>>} ELSE Answers(CurCommits)) :
          LET r == get_deploy_note(event, <<>>, fetched)
          IN  /\ calls' = calls \o Tagged("get_deploy_note", r.reads)
              /\ IF r.raised = "none"
                 THEN /\ _deploy_note' = <<r.value>>
                      /\ pc' = "output_note_raw"
                      /\ UNCHANGED <<raised, exit_status>>
                 ELSE /\ Abort(r.raised)
                      /\ UNCHANGED _deploy_note
    /\ UNCHANGED <<event, outputs, errors, _is_deploy_required, safe, checks,
                   cur_commit, commits, compares, last_deploy_commit,
                   last_main_commit, text, title>>

\* line 138: actions_output("note_raw", _deploy_note)
OutputNoteRaw ==
    /\ pc = "output_note_raw"
    /\ outputs' = Append(outputs, [name |-> "note_raw",
                                   value |-> _deploy_note[1]])
    /\ pc' = "output_note_clean"
    /\ UNCHANGED <<event, errors, exit_status, raised, _deploy_note,
                   _is_deploy_required, safe, checks, calls, cur_commit,
                   commits, compares, last_deploy_commit, last_main_commit,
                   text, title>>

\* line 139: actions_output("note_clean", shlex.quote(_deploy_note))
OutputNoteClean ==
    /\ pc = "output_note_clean"
    /\ outputs' = Append(outputs, [name |-> "note_clean",
                                   value |-> shlex_quote(_deploy_note[1])])
    /\ pc' = "check_deploy_required"
    /\ UNCHANGED <<event, errors, exit_status, raised, _deploy_note,
                   _is_deploy_required, safe, checks, calls, cur_commit,
                   commits, compares, last_deploy_commit, last_main_commit,
                   text, title>>

\* the requests check_deploy_required can make for this event
ParentAnswers(fetched) ==
    IF fetched # <<>> /\ Len(fetched[1].parents) > 1
    THEN [1..Len(fetched[1].parents) -> Answers(ParentCommits)]
    ELSE {<<>>}

\* line 141: _is_deploy_required = check_deploy_required()
CheckDeployRequired ==
    /\ pc = "check_deploy_required"
    /\ \E fetched \in (IF check_deploy_required(event, <<>>, <<>>).reads = <<>>
                       THEN {<<>>} ELSE Answers(CurCommits)) :
       \E parents \in ParentAnswers(fetched) :
          LET r == check_deploy_required(event, fetched, parents)
          IN  /\ calls' = calls \o Tagged("check_deploy_required", r.reads)
              /\ checks' = r.checks
              /\ cur_commit' = r.cur_commit
              /\ commits' = r.commits
              /\ IF r.raised = "none"
                 THEN /\ _is_deploy_required' = <<r.value>>
                      /\ pc' = "output_confirm"
                      /\ UNCHANGED <<raised, exit_status>>
                 ELSE /\ Abort(r.raised)
                      /\ UNCHANGED _is_deploy_required
    /\ UNCHANGED <<event, outputs, errors, _deploy_note, safe, compares,
                   last_deploy_commit, last_main_commit, text, title>>

\* str(value).lower()
StrLower(b) == IF b THEN <<"t", "r", "u", "e">> ELSE <<"f", "a", "l", "s", "e">>

\* a variant of OutputConfirm that goes on to check_safe_to_deploy whatever
\* the value of _is_deploy_required
OutputConfirmThenAlwaysCheck ==
    /\ pc = "output_confirm"
    /\ outputs' = Append(outputs, [name |-> "confirm",
                                   value |-> StrLower(_is_deploy_required[1])])
    /\ pc' = "check_safe_to_deploy"
    /\ cur_commit' = <<>>
    /\ commits' = <<>>
    /\ UNCHANGED <<event, errors, exit_status, raised, _deploy_note,
                   _is_deploy_required, safe, checks, calls, compares,
                   last_deploy_commit, last_main_commit, text, title>>

\* line 142: actions_output("confirm", str(_is_deploy_required).lower());
\* "and" of line 144 calls check_safe_to_deploy only if a deploy is required.
\* The locals of the call of line 141 are gone by now.
OutputConfirm ==
    /\ pc = "output_confirm"
    /\ outputs' = Append(outputs, [name |-> "confirm",
                                   value |-> StrLower(_is_deploy_required[1])])
    /\ pc' = IF _is_deploy_required[1] THEN "check_safe_to_deploy" ELSE "end"
    /\ cur_commit' = <<>>
    /\ commits' = <<>>
    /\ UNCHANGED <<event, errors, exit_status, raised, _deploy_note,
                   _is_deploy_required, safe, checks, calls, compares,
                   last_deploy_commit, last_main_commit, text, title>>

\* the answers check_safe_to_deploy can get for this event
SafeAnswers ==
    IF event.event_name # "pull_request"
    THEN {[cmps |-> <<<<>>, <<>>>>,
           deploy |-> [ref |-> <<>>, commit |-> <<>>],
           main |-> [ref |-> <<>>, commit |-> <<>>]]}
    ELSE [cmps : [1..2 -> Answers(CompareStatuses)],
          deploy : LastCommitAnswers("d", DeployCommits),
          main : LastCommitAnswers("m", MainCommits)]

\* line 144: "not check_safe_to_deploy()"
CheckSafeToDeploy ==
    /\ pc = "check_safe_to_deploy"
    /\ \E a \in SafeAnswers :
          LET r == check_safe_to_deploy(event, a.cmps, a.deploy, a.main)
          IN  /\ calls' = calls \o Tagged("check_safe_to_deploy", r.reads)
              /\ compares' = r.compares
              /\ last_deploy_commit' = r.last_deploy_commit
              /\ last_main_commit' = r.last_main_commit
              /\ IF r.raised = "none"
                 THEN /\ safe' = <<r.value>>
                      /\ pc' = IF r.value THEN "end" ELSE "actions_error"
                      /\ UNCHANGED <<raised, exit_status>>
                 ELSE /\ Abort(r.raised)
                      /\ UNCHANGED safe
    /\ UNCHANGED <<event, outputs, errors, _deploy_note, _is_deploy_required,
                   checks, cur_commit, commits, text, title>>

\* lines 145-156: actions_error(...); exit(1)
ReportBlocked ==
    /\ pc = "actions_error"
    /\ errors' = Append(errors, [branch |-> DEPLOY_DEV_BRANCH])
    /\ exit_status' = 1
    /\ pc' = "done"
    /\ UNCHANGED <<event, outputs, raised, _deploy_note, _is_deploy_required,
                   safe, checks, calls, cur_commit, commits, compares,
                   last_deploy_commit, last_main_commit, text, title>>

\* the script runs off its end: exit status 0
Finish ==
    /\ pc = "end"
    /\ exit_status' = 0
    /\ pc' = "done"
    /\ UNCHANGED <<event, outputs, errors, raised, _deploy_note,
                   _is_deploy_required, safe, checks, calls, cur_commit,
                   commits, compares, last_deploy_commit, last_main_commit,
                   text, title>>

Next ==
    \/ GetDeployNote
    \/ OutputNoteRaw
    \/ OutputNoteClean
    \/ CheckDeployRequired
    \/ OutputConfirm
    \/ CheckSafeToDeploy
    \/ ReportBlocked
    \/ Finish

Spec == Init /\ [][Next]_vars

\* ------------------------------------------- _extract_title on its own
InitTitle ==
    /\ event = NoEvent
    /\ pc = "extract_title"
    /\ InitLocals
    /\ text \in BoundedSeqs(TextAlphabet, MaxTextLen)
    /\ title = Return(<<>>)

\* one call _extract_title(text)
ExtractTitle ==
    /\ pc = "extract_title"
    /\ title' = _extract_title(text)
    /\ pc' = "title_done"
    /\ UNCHANGED <<event, outputs, errors, exit_status, raised, _deploy_note,
                   _is_deploy_required, safe, checks, calls, cur_commit,
                   commits, compares, last_deploy_commit, last_main_commit,
                   text>>

NextTitle == ExtractTitle

SpecTitle == InitTitle /\ [][NextTitle]_vars

\* ================================================================ claims
CheckOrder == <<"release_tag", "not_pr", "draft", "aux", "is_human">>

\* the run is a pull request whose commit was classified and the
\* classification has just returned
Classified == pc = "output_confirm" /\ cur_commit # <<>>

\* a commit committed by a bot with an automatic version bump message
BotBump(c) ==
    /\ c.committer_email \in {"github-actions[bot]@users.noreply.github.com",
                              "noreply@github.com"}
    /\ AUTO_PR_PATTERN_match(c.message)

Blocked == exit_status = 1 /\ errors # <<>>

\* C1: a run in which every remote read succeeds ends blocked (error
\* reported, exit status 1) iff check_deploy_required returned true and
\* check_safe_to_deploy returned false, and ends with exit status 0 and no
\* error report in every other case
C1_BlockedIffRequiredAndUnsafe ==
    (pc = "done" /\ raised # "HTTPError") =>
        IF _is_deploy_required = <<TRUE>> /\ safe = <<FALSE>>
        THEN exit_status = 1 /\ Len(errors) = 1
        ELSE exit_status = 0 /\ errors = <<>>

\* C2 as claimed: a merge commit is automated only if every parent is
\* automated, so a human first parent makes the merge human
C2_MergeHumanIfAnyParentHuman ==
    (Classified /\ Len(cur_commit[1].parents) > 1) =>
        (_is_deploy_required[1] = (\E k \in 1..Len(commits) : ~BotBump(commits[k])))

\* C2 amended: both parents of a merge commit are fetched and examined,
\* the merge commit itself is not, and the merge is human iff every parent
\* is human: one bot-committed version bump parent makes it automated
C2_MergeHumanIffAllParentsHuman ==
    (Classified /\ Len(cur_commit[1].parents) > 1) =>
        /\ Len(commits) = Len(cur_commit[1].parents)
        /\ _is_deploy_required[1] = (\A k \in 1..Len(commits) : ~BotBump(commits[k]))

C2_Witness ==
    /\ Classified
    /\ Len(cur_commit[1].parents) = 2
    /\ BotBump(cur_commit[1]) = FALSE
    /\ commits[1].committer_email = HumanEmail
    /\ BotBump(commits[2])
    /\ _is_deploy_required = <<FALSE>>

\* C3: a commit with 0 or 1 parents is automated iff its committer email is
\* a bot email and its message matches the version bump pattern, whoever
\* its author is
C3_SingleCommitHumanIffNotBotBump ==
    (Classified /\ Len(cur_commit[1].parents) <= 1) =>
        /\ commits = cur_commit
        /\ _is_deploy_required[1] = ~BotBump(cur_commit[1])

C3_Witness ==
    /\ Classified
    /\ Len(cur_commit[1].parents) = 1
    /\ cur_commit[1].committer_email = "noreply@github.com"
    /\ cur_commit[1].author_email = HumanEmail
    /\ cur_commit[1].message = MsgBump
    /\ _is_deploy_required = <<FALSE>>

\* the first check of check_deploy_required that decides for an event
Decider(ev) ==
    IF ev.event_name = "release" /\ ~RELEASE_PATTERN_match(ev.tag_name) THEN 1
    ELSE IF ev.event_name # "pull_request" THEN 2
    ELSE IF ev.pr_draft THEN 3
    ELSE IF AUX_PR_PATTERN_match(ev.pr_title) THEN 4
    ELSE 5

ReadsOf(caller) == {k \in 1..Len(calls) : calls[k][1] = caller}

\* C4: check_deploy_required evaluates its checks in the fixed order up to
\* the first one that decides; checks 1, 3 and 4 give false, check 2 gives
\* true, a draft pull request gives false whatever its title; no commit is
\* fetched or classified when one of the checks 1-4 decides
C4_ChecksShortCircuitInOrder ==
    checks # <<>> =>
        /\ checks = SubSeq(CheckOrder, 1, Decider(event))
        /\ (Len(checks) < 5 =>
              /\ _is_deploy_required = <<Len(checks) = 2>>
              /\ ReadsOf("check_deploy_required") = {}
              /\ cur_commit = <<>>
              /\ commits = <<>>)
        /\ ((event.event_name = "pull_request" /\ event.pr_draft) =>
              _is_deploy_required = <<FALSE>>)

C4_Witness ==
    /\ event.event_name = "pull_request"
    /\ event.pr_draft
    /\ event.pr_title = TitleRetry
    /\ checks = <<"release_tag", "not_pr", "draft">>
    /\ _is_deploy_required = <<FALSE>>
    /\ pc = "output_confirm"

\* the whole tag has the shape of a version tag
IsVersionTag(tag) == (Len(tag) + 1) \in ReleaseMatchEnds(tag)

\* C5: for a release event check_deploy_required returns true when the tag
\* name is a version tag (v, dot-separated numeric groups, optional
\* lowercase letters plus digits) and false when it is not
C5_ReleaseRequiredIffVersionTag ==
    (event.event_name = "release" /\ _is_deploy_required # <<>>) =>
        _is_deploy_required[1] = IsVersionTag(event.tag_name)

\* check_safe_to_deploy compared a branch with the deploy branch and found
\* them identical
SawIdentical == \E k \in 1..Len(compares) : compares[k] = "identical"

\* C6: when the main branch or the source branch compares as identical to
\* the deploy branch, check_safe_to_deploy returns true and fetches neither
\* the deploy branch's nor the main branch's last commit
C6_IdenticalBranchIsSafe ==
    SawIdentical =>
        /\ safe = <<TRUE>>
        /\ last_deploy_commit = <<>>
        /\ last_main_commit = <<>>
        /\ \A k \in ReadsOf("check_safe_to_deploy") :
              calls[k][2] = "compare_commits"

C6_Witness ==
    /\ compares = <<"ahead", "identical">>
    /\ safe = <<TRUE>>
    /\ pc = "end"

\* check_safe_to_deploy returned after finding neither branch identical
\* and fetching both last commits
NotesCompared ==
    /\ safe # <<>>
    /\ last_deploy_commit # <<>>
    /\ last_main_commit # <<>>

\* "PR: <first line of title> <link>", if the title has a first line
ExpectedPRNote ==
    {LitPR \o t \o <<" ">> \o event.pr_href
     : t \in ValueOf(_extract_title(event.pr_title))}

\* "Commit: <first line of message> <link>" for the main branch's last
\* commit, if its message has a first line
ExpectedMainNote ==
    {LitCommit \o t \o <<" ">> \o last_main_commit[1].html_url[1]
     : t \in ValueOf(_extract_title(last_main_commit[1].message))}

DeployIsBot ==
    last_deploy_commit[1].committer_email
        \in {"github-actions[bot]@users.noreply.github.com",
             "noreply@github.com"}

DeployEndsWith(notes) ==
    \E n \in notes :
        /\ Len(n) <= Len(last_deploy_commit[1].message)
        /\ SubSeq(last_deploy_commit[1].message,
                  Len(last_deploy_commit[1].message) - Len(n) + 1,
                  Len(last_deploy_commit[1].message)) = n

\* C7 as claimed: with neither branch identical, check_safe_to_deploy
\* returns true when the deploy branch's last commit is bot-committed and
\* its message ends with the deploy note of the main branch's last commit,
\* and false when the message does not end with exactly that note
C7_SafeIffEndsWithMainNote ==
    (NotesCompared /\ ExpectedMainNote # {}) =>
        /\ ((DeployIsBot /\ DeployEndsWith(ExpectedMainNote)) => safe = <<TRUE>>)
        /\ (~DeployEndsWith(ExpectedMainNote) => safe = <<FALSE>>)

\* the call of check_safe_to_deploy ended with the IndexError of
\* _extract_title
SafeCheckCrashed ==
    /\ raised = "IndexError"
    /\ last_deploy_commit # <<>>
    /\ last_main_commit # <<>>

\* C7 amended: with neither branch identical, check_safe_to_deploy returns
\* true when the deploy branch's last commit is bot-committed and its
\* message ends with the deploy note of the pull request or with the deploy
\* note of the main branch's last commit; it returns false when that commit
\* is not bot-committed or its message ends with neither note; it raises
\* the error of firstLine instead of returning exactly when the commit is
\* bot-committed, its message does not end with the pull request's note and
\* the main branch's last commit message has no first line
C7_SafeIffEndsWithEitherNote ==
    /\ NotesCompared =>
          safe = <<DeployIsBot /\ (\/ DeployEndsWith(ExpectedPRNote)
                                   \/ DeployEndsWith(ExpectedMainNote))>>
    /\ (NotesCompared /\ DeployIsBot /\ ~DeployEndsWith(ExpectedPRNote))
          => ExpectedMainNote # {}
    /\ SafeCheckCrashed =>
          /\ DeployIsBot
          /\ ~DeployEndsWith(ExpectedPRNote)
          /\ ExpectedMainNote = {}

C7_Witness ==
    /\ NotesCompared
    /\ DeployIsBot
    /\ ~DeployEndsWith(ExpectedPRNote)
    /\ DeployEndsWith(ExpectedMainNote)
    /\ last_main_commit[1].message = MsgTwoLines
    /\ safe = <<TRUE>>

\* C8: a run that ends with the failure of a remote read has recorded none
\* of the outputs note_raw, note_clean and confirm
C8_NoOutputOnFetchError ==
    raised = "HTTPError" => outputs = <<>>

\* a line break in a text: a character that ends a line, or one of the
\* escaped sequences backslash-n and backslash-r
HasLineBreak(m) ==
    \/ \E k \in 1..Len(m) : m[k] \in {NL, CR, FF}
    \/ \E k \in 1..(Len(m) - 1) : m[k] = BS /\ m[k + 1] \in {"n", "r"}

\* C9: for every message, the empty one included, _extract_title returns a
\* value without line breaks, and returns the message itself when the
\* message has no line break
C9_FirstLineTotalAndSingleLine ==
    pc = "title_done" =>
        /\ title.raised = "none"
        /\ ~HasLineBreak(title.value)
        /\ (~HasLineBreak(text) => title.value = text)

OutputNames == [k \in 1..Len(outputs) |-> outputs[k].name]

SafeCheckStarted ==
    \/ pc \in {"check_safe_to_deploy", "actions_error"}
    \/ safe # <<>>
    \/ ReadsOf("check_safe_to_deploy") # {}
    \/ last_deploy_commit # <<>>

\* C10: the outputs are recorded in the order note_raw, note_clean, confirm,
\* each at most once, and all three before check_safe_to_deploy is called;
\* a blocked run has recorded confirm = "true", and check_safe_to_deploy is
\* never called in a run whose confirm output is "false"
C10_OutputsBeforeSafetyCheck ==
    /\ OutputNames = SubSeq(<<"note_raw", "note_clean", "confirm">>,
                            1, Len(outputs))
    /\ SafeCheckStarted =>
          Len(outputs) = 3 /\ outputs[3].value = <<"t", "r", "u", "e">>
    /\ Blocked =>
          Len(outputs) = 3 /\ outputs[3].value = <<"t", "r", "u", "e">>
    /\ (Len(outputs) = 3 /\ outputs[3].value = <<"f", "a", "l", "s", "e">>)
          => ~SafeCheckStarted

C10_Witness ==
    /\ Blocked
    /\ pc = "done"
    /\ safe = <<FALSE>>
    /\ OutputNames = <<"note_raw", "note_clean", "confirm">>
    /\ outputs[3].value = <<"t", "r", "u", "e">>

====
